---- MODULE Spec2Model ----
(***************************************************************************)
(* Non-preemptive batch-job dispatch on m identical cores under FCFS, SJF  *)
(* and HRRN (lab1/src/main.rs).  Each dispatcher is a loop over local      *)
(* state; one run of one dispatcher on one input is one behaviour.         *)
(*                                                                         *)
(* Times are f64 in the source.  Every input drawn here is a small         *)
(* integer, all derived times are sums of such integers, so every f64      *)
(* value is exact and the tolerance test `t <= time + 1e-9` decides        *)
(* the same as `t <= time`.  Response ratios are quotients of small        *)
(* integers; two distinct such quotients differ by far more than one ulp,  *)
(* so comparing the f64 quotients decides the same as comparing the exact  *)
(* rationals, which is done here by cross-multiplication.                  *)
(*                                                                         *)
(* Vectors are 1-based here (core index c here is core c-1 in the source). *)
(***************************************************************************)
EXTENDS Integers, Sequences, FiniteSets, TLC

\* ---------------------------------------------------------------- bounds
MaxJobs == 3
MaxArrival == 1
MaxService == 2
MaxCores == 2

VARIABLES
    alg,        \* which dispatcher runs: "fcfs", "sjf" or "hrrn"
    jobs,       \* the parameter `jobs: &[Job]`
    m,          \* the parameter `m: usize`
    pc,         \* position in the running dispatcher
    all,        \* the arrival-sorted working copy (`jobs` in fcfs, `all` in sjf/hrrn)
    time,       \* the virtual clock `time`
    finished,   \* `finished`
    ready,      \* `ready`
    idx_next,   \* `idx_next` (sjf/hrrn), the for-loop position (fcfs)
    core_free,  \* `core_free`
    free_idxs,  \* `free_idxs`, the part the for loop has not consumed yet
    result,     \* the returned vector
    trace,      \* history: one entry per assignment, in the order they are made
    report,     \* print_results: sum_turn, sum_wturn, count and the printed averages
    returned    \* main: what the dispatchers called earlier on this list returned

vars == <<alg, jobs, m, pc, all, time, finished, ready, idx_next, core_free,
          free_idxs, result, trace, report, returned>>

\* ------------------------------------------------------------ data model
\* Option<f64>: None is the empty sequence, Some(v) is <<v>>.
None == <<>>
Some(v) == <<v>>
IsSome(o) == Len(o) = 1
Unwrap(o) == o[1]

\* Job::new
NewJob(id, arrival, service) ==
    [id |-> id, arrival |-> arrival, service |-> service, start |-> None, end |-> None]

\* mutant: the smaller of the two is taken
MaxSwapped(a, b) == IF a >= b THEN b ELSE a

\* mutant: the comparison is missing, the first operand is taken
MaxFirst(a, b) == a

\* f64::max, f64::min
Max(a, b) == IF a >= b THEN a ELSE b
Min(a, b) == IF a <= b THEN a ELSE b

\* ------------------------------------------------------------ comparators
\* f64::partial_cmp(..).unwrap_or(Equal) on exact values.
CmpNum(a, b) == IF a < b THEN "Less" ELSE IF a > b THEN "Greater" ELSE "Equal"

\* usize::cmp on ids
CmpId(a, b) == CmpNum(a.id, b.id)

\* mutant: b.arrival.partial_cmp(&a.arrival), the latest arrival first
CmpArrivalDesc(a, b) == CmpNum(b.arrival, a.arrival)

\* |a, b| a.arrival.partial_cmp(&b.arrival)
CmpArrival(a, b) == CmpNum(a.arrival, b.arrival)

\* mutant: the longer job first
CmpServiceDesc(a, b) == CmpNum(b.service, a.service)

\* mutant: equal service times are ordered by id, `.then(a.id.cmp(&b.id))`
CmpServiceThenId(a, b) ==
    IF a.service = b.service THEN CmpNum(a.id, b.id) ELSE CmpNum(a.service, b.service)

\* |a, b| a.service.partial_cmp(&b.service)
CmpService(a, b) == CmpNum(a.service, b.service)

\* mutant: ra.partial_cmp(&rb), the lowest response ratio first
CmpRatioAsc(t, a, b) ==
    CmpNum((t - a.arrival + a.service) * b.service,
           (t - b.arrival + b.service) * a.service)

\* |a, b| rb.partial_cmp(&ra) with r = (time - arrival + service) / service,
\* service > 0: rb ? ra  <=>  nb * sa ? na * sb.
CmpRatio(t, a, b) ==
    CmpNum((t - b.arrival + b.service) * a.service,
           (t - a.arrival + a.service) * b.service)

Cmp(key, t, a, b) ==
    CASE key = "arrival" -> CmpArrival(a, b)
      [] key = "service" -> CmpService(a, b)
      [] key = "ratio"   -> CmpRatio(t, a, b)
      [] key = "id"      -> CmpId(a, b)

\* mutant: an unstable sort, elements that compare Equal change places
PrecedesUnstable(key, t, s, j, i) ==
    \/ Cmp(key, t, s[j], s[i]) = "Less"
    \/ Cmp(key, t, s[j], s[i]) = "Equal" /\ j > i

\* slice::sort_by is a stable sort: s[j] ends up before s[i] when it compares
\* Less, or compares Equal and stands before it.  (Every comparator above is a
\* total preorder on the jobs it is given.)
Precedes(key, t, s, j, i) ==
    \/ Cmp(key, t, s[j], s[i]) = "Less"
    \/ Cmp(key, t, s[j], s[i]) = "Equal" /\ j < i

\* the sorted vector: place k holds the element that k - 1 others precede
Sorted(key, t, s) ==
    [k \in 1..Len(s) |->
        s[CHOOSE i \in 1..Len(s) :
            Cardinality({j \in 1..Len(s) : Precedes(key, t, s, j, i)}) = k - 1]]

\* mutant: sort, then dedup_by the sort key
SortByDedup(key, t, s) ==
    LET r == Sorted(key, t, s)
        keep == {k \in 1..Len(r) : k = 1 \/ Cmp(key, t, r[k - 1], r[k]) # "Equal"}
    IN [x \in 1..Cardinality(keep) |->
            r[CHOOSE k \in keep : Cardinality({h \in keep : h < k}) = x - 1]]

SortBy(key, t, s) == Sorted(key, t, s)

\* ------------------------------------------------------------ core tracker
\* vec![0.0; m]
ZeroCores(n) == [c \in 1..n |-> 0]

\* mutant: max_by for min_by, the core that is free last
MaxIdx(cf) ==
    IF Len(cf) = 0 THEN 0
    ELSE CHOOSE c \in 1..Len(cf) :
            /\ \A d \in 1..Len(cf) : cf[c] >= cf[d]
            /\ \A d \in (c + 1)..Len(cf) : cf[d] < cf[c]

\* core_free.iter().enumerate().min_by(..): the first of the minimal entries,
\* None (0 here) on an empty vector.
MinIdx(cf) ==
    IF Len(cf) = 0 THEN 0
    ELSE CHOOSE c \in 1..Len(cf) :
            /\ \A d \in 1..Len(cf) : cf[c] <= cf[d]
            /\ \A d \in 1..(c - 1) : cf[d] > cf[c]

\* core_free.iter().cloned().min_by(..) as Option<f64>
NextFree(cf) == IF Len(cf) = 0 THEN None ELSE Some(cf[MinIdx(cf)])

\* mutant: a tolerance of a whole time unit
RECURSIVE FreeIdxsFromLoose(_, _, _)
FreeIdxsFromLoose(cf, t, c) ==
    IF c > Len(cf) THEN <<>>
    ELSE (IF cf[c] <= t + 1 THEN <<c>> ELSE <<>>) \o FreeIdxsFromLoose(cf, t, c + 1)

\* core_free.iter().enumerate().filter(|(_, &t)| t <= time + 1e-9).map(|(i, _)| i)
RECURSIVE FreeIdxsFrom(_, _, _)
FreeIdxsFrom(cf, t, c) ==
    IF c > Len(cf) THEN <<>>
    ELSE (IF cf[c] <= t THEN <<c>> ELSE <<>>) \o FreeIdxsFrom(cf, t, c + 1)

\* mutant: the filter is missing, every core counts as free
FreeIdxsAll(cf, t) == [c \in 1..Len(cf) |-> c]

FreeIdxs(cf, t) == FreeIdxsFrom(cf, t, 1)

\* all.get(idx_next).map(|j| j.arrival)
NextArrival(a, i) == IF i <= Len(a) THEN Some(a[i].arrival) ELSE None

\* ------------------------------------------------------------ inputs
\* Generated lists carry unique ids that count down along the list, so that
\* input order and id order disagree; sample_jobs() has them counting up.
IdOf(n, i) == n + 1 - i

\* the job list built from n arrivals and services
JobList(n, arr, svc) == [i \in 1..n |-> NewJob(IdOf(n, i), arr[i], svc[i])]

\* sample_jobs()
SampleJobs ==
    <<NewJob(1, 0, 3), NewJob(2, 2, 6), NewJob(3, 4, 4), NewJob(4, 6, 5), NewJob(5, 8, 2)>>

\* sample_jobs2()
SampleJobs2 ==
    <<NewJob(1, 0, 8), NewJob(2, 1, 4), NewJob(3, 2, 9), NewJob(4, 3, 5), NewJob(5, 10, 2),
      NewJob(6, 10, 1)>>

\* the arguments a dispatcher can be called with
Arguments(list, cores) ==
    /\ cores \in 1..MaxCores
    /\ \/ \E n \in 0..MaxJobs :
             \E arr \in [1..n -> 0..MaxArrival], svc \in [1..n -> 1..MaxService] :
                list = JobList(n, arr, svc)
       \/ list = SampleJobs
       \/ list = SampleJobs2

\* the arguments with a degenerate service time: at least one job of the list
\* has service = 0 (the sample lists have none)
DegenerateArguments(list, cores) ==
    /\ cores \in 1..MaxCores
    /\ \E n \in 1..MaxJobs :
          \E arr \in [1..n -> 0..MaxArrival], svc \in [1..n -> 0..MaxService] :
              /\ 0 \in {svc[i] : i \in 1..n}
              /\ list = JobList(n, arr, svc)

\* the arguments with one service time for every job of the list
EqualServiceArguments(list, cores) ==
    /\ cores \in 1..MaxCores
    /\ \E n \in 1..MaxJobs :
          \E arr \in [1..n -> 0..MaxArrival], s \in 1..MaxService :
              list = JobList(n, arr, [i \in 1..n |-> s])

\* ------------------------------------------------------------ metrics
\* A quotient of two f64 values is kept as the exact fraction <<num, den>>,
\* den > 0; sums and quotients of fractions are exact.
Frac(n, d) == <<n, d>>
FracAdd(a, b) == <<a[1] * b[2] + b[1] * a[2], a[2] * b[2]>>
FracDiv(a, k) == <<a[1], a[2] * k>>
FracEq(a, b) == a[1] * b[2] = b[1] * a[2]

\* Job::turnaround
Turnaround(j) == IF IsSome(j.end) THEN Some(Unwrap(j.end) - j.arrival) ELSE None

\* Job::weighted_turnaround
WeightedTurnaround(j) ==
    IF IsSome(Turnaround(j)) /\ j.service > 0
    THEN Some(Frac(Unwrap(Turnaround(j)), j.service))
    ELSE None

\* print_results, `for j in &jobs`: the running sum_turn, sum_wturn and count
RECURSIVE PrintLoop(_, _)
PrintLoop(js, acc) ==
    IF js = <<>> THEN acc
    ELSE LET j == Head(js)
             turn == IF IsSome(Turnaround(j)) THEN Unwrap(Turnaround(j)) ELSE -1
             wturn == IF IsSome(WeightedTurnaround(j)) THEN Unwrap(WeightedTurnaround(j))
                      ELSE Frac(-1, 1)
             wturn0 == IF wturn[1] >= 0 THEN wturn ELSE Frac(0, 1)
         IN PrintLoop(Tail(js),
                      IF turn >= 0
                      THEN [sum_turn |-> acc.sum_turn + turn,
                            sum_wturn |-> FracAdd(acc.sum_wturn, wturn0),
                            count |-> acc.count + 1]
                      ELSE acc)

\* nothing printed yet
NoReport ==
    [sum_turn |-> 0, sum_wturn |-> Frac(0, 1), count |-> 0,
     avg_turn |-> None, avg_wturn |-> None]

\* print_results(jobs, title): what the two average lines show, None when they
\* are not printed
PrintResultsOf(js) ==
    LET acc == PrintLoop(SortBy("id", 0, js),
                         [sum_turn |-> 0, sum_wturn |-> Frac(0, 1), count |-> 0])
    IN [sum_turn |-> acc.sum_turn, sum_wturn |-> acc.sum_wturn, count |-> acc.count,
        avg_turn |-> IF acc.count > 0 THEN Some(Frac(acc.sum_turn, acc.count)) ELSE None,
        avg_wturn |-> IF acc.count > 0 THEN Some(FracDiv(acc.sum_wturn, acc.count)) ELSE None]

\* no dispatcher has been called yet
Init ==
    /\ alg = "none"
    /\ jobs = <<>>
    /\ m = 0
    /\ pc = "idle"
    /\ all = <<>>
    /\ time = 0
    /\ finished = <<>>
    /\ ready = <<>>
    /\ idx_next = 1
    /\ core_free = <<>>
    /\ free_idxs = <<>>
    /\ result = <<>>
    /\ trace = <<>>
    /\ report = NoReport
    /\ returned = <<>>

\* a call starts with nothing dispatched, returned or printed
Fresh ==
    /\ free_idxs' = <<>>
    /\ result' = <<>>
    /\ trace' = <<>>
    /\ report' = NoReport

\* ------------------------------------------------------------ FCFS
\* schedule_fcfs(jobs, m) is entered with the arguments jobs', m':
\* let mut jobs = jobs.to_vec(); jobs.sort_by(arrival); core_free = vec![0.0; m]
FcfsEnter ==
    /\ alg' = "fcfs"
    /\ all' = SortBy("arrival", 0, jobs')
    /\ core_free' = ZeroCores(m')
    /\ idx_next' = 1
    /\ pc' = "fcfs_loop"
    /\ UNCHANGED <<time, finished, ready>>
    /\ Fresh

\* schedule_fcfs(jobs, m) is called
FcfsStart == pc = "idle" /\ Arguments(jobs', m') /\ FcfsEnter /\ UNCHANGED returned

\* schedule_fcfs(jobs, m) is called on a list with a zero service time
FcfsStartDegenerate ==
    pc = "idle" /\ DegenerateArguments(jobs', m') /\ FcfsEnter /\ UNCHANGED returned

\* one pass of `for j in &mut jobs`
FcfsPlace ==
    /\ pc = "fcfs_loop" /\ idx_next <= Len(all)
    /\ LET j == all[idx_next]
           idx == MinIdx(core_free)
           free_t == core_free[idx]
           start == Max(j.arrival, free_t)
           end == start + j.service
       IN /\ all' = [all EXCEPT ![idx_next] = [j EXCEPT !.start = Some(start), !.end = Some(end)]]
          /\ core_free' = [core_free EXCEPT ![idx] = end]
          /\ trace' = Append(trace, [id |-> j.id, core |-> idx,
                                     start |-> start, end |-> end, at |-> free_t,
                                     was |-> free_t, from |-> "loop"])
    /\ idx_next' = idx_next + 1
    /\ UNCHANGED <<report, returned, alg, jobs, m, pc, time, finished, ready, free_idxs, result>>

\* the loop is over: `jobs` is returned as it is
FcfsReturn ==
    /\ pc = "fcfs_loop" /\ idx_next > Len(all)
    /\ result' = all
    /\ pc' = "done"
    /\ UNCHANGED <<report, returned, alg, jobs, m, all, time, finished, ready, idx_next, core_free, free_idxs, trace>>

\* ------------------------------------------------------------ SJF / HRRN
\* The two event-driven dispatchers share their control flow line for line and
\* differ in the key the ready vector is sorted by.

\* mutant: `arrival < time`, a job is admitted only after its arrival instant
RECURSIVE AdmitUptoStrict(_, _, _)
AdmitUptoStrict(a, i, t) ==
    IF i <= Len(a) /\ a[i].arrival < t THEN AdmitUptoStrict(a, i + 1, t) ELSE i

\* mutant: `if` for `while`, at most one job is admitted per pass
AdmitUptoOne(a, i, t) ==
    IF i <= Len(a) /\ a[i].arrival <= t THEN i + 1 ELSE i

\* while idx_next < all.len() && all[idx_next].arrival <= time { idx_next += 1 }
RECURSIVE AdmitUpto(_, _, _)
AdmitUpto(a, i, t) ==
    IF i <= Len(a) /\ a[i].arrival <= t THEN AdmitUpto(a, i + 1, t) ELSE i

\* mutant: `(None, Some(_)) => break`, the loop is left once nothing more arrives
NextEventNoWait(na, nf) ==
    CASE IsSome(na) /\ IsSome(nf) -> Some(Min(Unwrap(na), Unwrap(nf)))
      [] IsSome(na) /\ ~IsSome(nf) -> Some(Unwrap(na))
      [] OTHER -> None

\* match (next_arrival, next_free): the new clock value, None for `break`
NextEvent(na, nf) ==
    CASE IsSome(na) /\ IsSome(nf) -> Some(Min(Unwrap(na), Unwrap(nf)))
      [] IsSome(na) /\ ~IsSome(nf) -> Some(Unwrap(na))
      [] ~IsSome(na) /\ IsSome(nf) -> Some(Unwrap(nf))
      [] OTHER -> None

\* the dispatcher is entered with the arguments jobs', m': the locals before
\* the while loop
EvEnter ==
    /\ all' = SortBy("arrival", 0, jobs')
    /\ time' = 0
    /\ finished' = <<>>
    /\ ready' = <<>>
    /\ idx_next' = 1
    /\ core_free' = ZeroCores(m')
    /\ pc' = "loop"
    /\ Fresh

\* the dispatcher is called
EvStart == pc = "idle" /\ Arguments(jobs', m') /\ EvEnter /\ UNCHANGED returned

\* the dispatcher is called on a list with a zero service time
EvStartDegenerate ==
    pc = "idle" /\ DegenerateArguments(jobs', m') /\ EvEnter /\ UNCHANGED returned

\* loop head: the while test holds; admit the arrived jobs, collect the free cores
EvAdmit ==
    /\ pc = "loop" /\ Len(finished) < Len(all)
    /\ LET k == AdmitUpto(all, idx_next, time)
       IN /\ ready' = ready \o SubSeq(all, idx_next, k - 1)
          /\ idx_next' = k
    /\ free_idxs' = FreeIdxs(core_free, time)
    /\ pc' = "branch"
    /\ UNCHANGED <<report, returned, alg, jobs, m, all, time, finished, core_free, result, trace>>

\* loop head: the while test fails
EvLoopExit ==
    /\ pc = "loop" /\ ~(Len(finished) < Len(all))
    /\ pc' = "exit"
    /\ UNCHANGED <<report, returned, alg, jobs, m, all, time, finished, ready, idx_next, core_free,
                   free_idxs, result, trace>>

\* the `if free_idxs.is_empty()` block.  Work waiting: jump to the earliest
\* core free time.  Nothing waiting: jump to the next arrival or core release,
\* or leave the loop when there is neither.
EvBusy ==
    /\ pc = "branch" /\ free_idxs = <<>>
    /\ ready = <<>> \/ IsSome(NextFree(core_free))
    /\ IF ready # <<>>
       THEN time' = Unwrap(NextFree(core_free)) /\ pc' = "loop"
       ELSE LET ev == NextEvent(NextArrival(all, idx_next), NextFree(core_free))
            IN IF IsSome(ev) THEN time' = Unwrap(ev) /\ pc' = "loop"
                             ELSE time' = time /\ pc' = "exit"
    /\ UNCHANGED <<report, returned, alg, jobs, m, all, finished, ready, idx_next, core_free,
                   free_idxs, result, trace>>

\* a core is free, nothing waiting: jump to the next arrival, or leave the loop
EvIdle ==
    /\ pc = "branch" /\ free_idxs # <<>> /\ ready = <<>>
    /\ IF idx_next <= Len(all)
       THEN time' = all[idx_next].arrival /\ pc' = "loop"
       ELSE time' = time /\ pc' = "exit"
    /\ free_idxs' = <<>>
    /\ UNCHANGED <<report, returned, alg, jobs, m, all, finished, ready, idx_next, core_free,
                   result, trace>>

\* mutant: a job with nothing to run is taken from ready and not recorded
RECURSIVE AssignFreeSkipZero(_, _, _, _, _, _)
AssignFreeSkipZero(cores, rdy, fin, cf, tr, t) ==
    IF cores = <<>> \/ rdy = <<>> THEN [rdy |-> rdy, fin |-> fin, cf |-> cf, tr |-> tr]
    ELSE LET core == Head(cores)
             job == Head(rdy)
             start == Max(t, job.arrival)
             end == start + job.service
         IN IF job.service = 0
            THEN AssignFreeSkipZero(cores, Tail(rdy), fin, cf, tr, t)
            ELSE AssignFreeSkipZero(Tail(cores), Tail(rdy),
                       Append(fin, [job EXCEPT !.start = Some(start), !.end = Some(end)]),
                       [cf EXCEPT ![core] = end],
                       Append(tr, [id |-> job.id, core |-> core, start |-> start,
                                   end |-> end, at |-> t, was |-> cf[core],
                                   from |-> "loop"]),
                       t)

\* mutant: `ready[0].clone()` for `ready.remove(0)`, the job stays in ready
RECURSIVE AssignFreeKeepsReady(_, _, _, _, _, _)
AssignFreeKeepsReady(cores, rdy, fin, cf, tr, t) ==
    IF cores = <<>> \/ rdy = <<>> THEN [rdy |-> rdy, fin |-> fin, cf |-> cf, tr |-> tr]
    ELSE LET core == Head(cores)
             job == Head(rdy)
             start == Max(t, job.arrival)
             end == start + job.service
         IN AssignFreeKeepsReady(Tail(cores), rdy,
                       Append(fin, [job EXCEPT !.start = Some(start), !.end = Some(end)]),
                       [cf EXCEPT ![core] = end],
                       Append(tr, [id |-> job.id, core |-> core, start |-> start,
                                   end |-> end, at |-> t, was |-> cf[core],
                                   from |-> "loop"]),
                       t)

\* `for core in free_idxs`: each free core in turn takes the head of the sorted
\* ready vector, until the cores or the ready jobs run out.  Yields what is left
\* of ready, and the extended finished vector, core_free and trace.
RECURSIVE AssignFree(_, _, _, _, _, _)
AssignFree(cores, rdy, fin, cf, tr, t) ==
    IF cores = <<>> \/ rdy = <<>> THEN [rdy |-> rdy, fin |-> fin, cf |-> cf, tr |-> tr]
    ELSE LET core == Head(cores)
             job == Head(rdy)
             start == Max(t, job.arrival)
             end == start + job.service
         IN AssignFree(Tail(cores), Tail(rdy),
                       Append(fin, [job EXCEPT !.start = Some(start), !.end = Some(end)]),
                       [cf EXCEPT ![core] = end],
                       Append(tr, [id |-> job.id, core |-> core, start |-> start,
                                   end |-> end, at |-> t, was |-> cf[core],
                                   from |-> "loop"]),
                       t)

\* the dispatch step: sort ready by the policy's key at the current clock, hand
\* the sorted jobs to the free cores, then advance the clock to the next event.
\* Reached with work waiting and either a free core or (m = 0 only) no core.
EvDispatch(key) ==
    /\ pc = "branch" /\ ready # <<>>
    /\ free_idxs # <<>> \/ ~IsSome(NextFree(core_free))
    /\ LET d == AssignFree(free_idxs, SortBy(key, time, ready), finished, core_free,
                           trace, time)
           ev == NextEvent(NextArrival(all, idx_next), NextFree(d.cf))
       IN /\ ready' = d.rdy
          /\ finished' = d.fin
          /\ core_free' = d.cf
          /\ trace' = d.tr
          /\ IF IsSome(ev) THEN time' = Unwrap(ev) /\ pc' = "loop"
                           ELSE time' = time /\ pc' = "exit"
    /\ free_idxs' = <<>>
    /\ UNCHANGED <<report, returned, alg, jobs, m, all, idx_next, result>>

\* the block after the loop: every job left in `ready` goes to the earliest
\* free core.  Yields the extended finished vector, core_free and trace.
RECURSIVE Fallback(_, _, _, _)
Fallback(rdy, fin, cf, tr) ==
    IF rdy = <<>> THEN [fin |-> fin, cf |-> cf, tr |-> tr]
    ELSE LET job == Head(rdy)
             idx == MinIdx(cf)
             free_t == cf[idx]
             start == Max(job.arrival, free_t)
             end == start + job.service
         IN Fallback(Tail(rdy),
                     Append(fin, [job EXCEPT !.start = Some(start), !.end = Some(end)]),
                     [cf EXCEPT ![idx] = end],
                     Append(tr, [id |-> job.id, core |-> idx,
                                 start |-> start, end |-> end, at |-> free_t,
                                 was |-> free_t, from |-> "fallback"]))

\* after the loop: the fallback block, then finished.sort_by(id) is returned
EvReturn ==
    /\ pc = "exit"
    /\ LET fb == Fallback(ready, finished, core_free, trace)
       IN /\ finished' = SortBy("id", 0, fb.fin)
          /\ result' = SortBy("id", 0, fb.fin)
          /\ core_free' = fb.cf
          /\ trace' = fb.tr
    /\ ready' = <<>>
    /\ pc' = "done"
    /\ UNCHANGED <<report, returned, alg, jobs, m, all, time, idx_next, free_idxs>>

\* main: print_results(res, title) on what a dispatcher returned
PrintResults ==
    /\ pc = "done"
    /\ report' = PrintResultsOf(result)
    /\ pc' = "printed"
    /\ UNCHANGED <<returned, alg, jobs, m, all, time, finished, ready, idx_next, core_free,
                   free_idxs, result, trace>>

SjfStart == alg' = "sjf" /\ EvStart
SjfStartDegenerate == alg' = "sjf" /\ EvStartDegenerate
SjfAdmit == alg = "sjf" /\ EvAdmit
SjfLoopExit == alg = "sjf" /\ EvLoopExit
SjfBusy == alg = "sjf" /\ EvBusy
SjfIdle == alg = "sjf" /\ EvIdle
SjfDispatch == alg = "sjf" /\ EvDispatch("service")
SjfReturn == alg = "sjf" /\ EvReturn

HrrnStart == alg' = "hrrn" /\ EvStart
HrrnAdmit == alg = "hrrn" /\ EvAdmit
HrrnLoopExit == alg = "hrrn" /\ EvLoopExit
HrrnBusy == alg = "hrrn" /\ EvBusy
HrrnIdle == alg = "hrrn" /\ EvIdle
HrrnDispatch == alg = "hrrn" /\ EvDispatch("ratio")
HrrnReturn == alg = "hrrn" /\ EvReturn

Next ==
    \/ FcfsStart \/ FcfsPlace \/ FcfsReturn
    \/ SjfStart \/ SjfAdmit \/ SjfLoopExit \/ SjfBusy \/ SjfIdle
    \/ SjfDispatch \/ SjfReturn
    \/ HrrnStart \/ HrrnAdmit \/ HrrnLoopExit \/ HrrnBusy \/ HrrnIdle
    \/ HrrnDispatch \/ HrrnReturn
    \/ PrintResults

Spec == Init /\ [][Next]_vars

\* main calls the three dispatchers one after the other on the same list and
\* core count, printing what each returns: let res_fcfs = schedule_fcfs(&jobs, m);
\* print_results(res_fcfs, ..); let res_sjf = schedule_sjf(&jobs, m); ...
FcfsStartEqual ==
    pc = "idle" /\ EqualServiceArguments(jobs', m') /\ FcfsEnter /\ UNCHANGED returned

\* the next dispatcher is called on the list the previous one was called on
CallAfter(prev) ==
    /\ pc = "printed" /\ alg = prev
    /\ returned' = Append(returned, [alg |-> alg, result |-> result])
    /\ UNCHANGED <<jobs, m>>
    /\ EvEnter

SjfAfterFcfs == alg' = "sjf" /\ CallAfter("fcfs")
HrrnAfterSjf == alg' = "hrrn" /\ CallAfter("sjf")

NextEqualService ==
    \/ FcfsStartEqual \/ FcfsPlace \/ FcfsReturn
    \/ SjfAfterFcfs \/ SjfAdmit \/ SjfLoopExit \/ SjfBusy \/ SjfIdle
    \/ SjfDispatch \/ SjfReturn
    \/ HrrnAfterSjf \/ HrrnAdmit \/ HrrnLoopExit \/ HrrnBusy \/ HrrnIdle
    \/ HrrnDispatch \/ HrrnReturn
    \/ PrintResults

SpecEqualService == Init /\ [][NextEqualService]_vars

\* schedule_fcfs and schedule_sjf on lists with a zero service time.
\* (schedule_hrrn divides by the service time and is left out.)
NextDegenerate ==
    \/ FcfsStartDegenerate \/ FcfsPlace \/ FcfsReturn
    \/ SjfStartDegenerate \/ SjfAdmit \/ SjfLoopExit \/ SjfBusy \/ SjfIdle
    \/ SjfDispatch \/ SjfReturn
    \/ PrintResults

SpecDegenerate == Init /\ [][NextDegenerate]_vars

\* ------------------------------------------------------------ properties
Done == pc \in {"done", "printed"}

\* the indices of `s` that hold the job with this id
Holding(s, id) == {k \in 1..Len(s) : s[k].id = id}

\* the jobs of the returned list that run at instant t
RunningAt(t) ==
    {k \in 1..Len(result) : Unwrap(result[k].start) <= t /\ t < Unwrap(result[k].end)}

\* the last instant at which a returned job ends (0 for the empty list)
Horizon ==
    IF result = <<>> THEN 0
    ELSE CHOOSE e \in {Unwrap(result[k].end) : k \in 1..Len(result)} :
            \A k \in 1..Len(result) : Unwrap(result[k].end) <= e

\* C1 Completeness: what a dispatcher returns holds exactly the input jobs by
\* id, each once (the empty list gives the empty list), each with start and end set.
Completeness ==
    Done =>
        /\ Len(result) = Len(jobs)
        /\ \A i \in 1..Len(jobs) : Cardinality(Holding(result, jobs[i].id)) = 1
        /\ \A k \in 1..Len(result) :
              /\ Holding(jobs, result[k].id) # {}
              /\ IsSome(result[k].start) /\ IsSome(result[k].end)

CompletenessWitness ==
    /\ Done /\ alg = "hrrn" /\ m = 2 /\ Len(jobs) = 3
    /\ \E k \in 1..Len(result) : Unwrap(result[k].start) > result[k].arrival

\* C2 Causality: every returned job starts no earlier than it arrives and ends
\* exactly its service time after it starts.
Causality ==
    Done =>
        \A k \in 1..Len(result) :
            /\ IsSome(result[k].start) /\ IsSome(result[k].end)
            /\ Unwrap(result[k].start) >= result[k].arrival
            /\ Unwrap(result[k].end) = Unwrap(result[k].start) + result[k].service

CausalityWitness ==
    /\ Done /\ alg = "sjf" /\ Len(result) = 3
    /\ \E k \in 1..Len(result) : Unwrap(result[k].start) > result[k].arrival
    /\ \E k \in 1..Len(result) : Unwrap(result[k].start) = result[k].arrival

PosOf(id) == CHOOSE p \in 1..Len(jobs) : jobs[p].id = id

\* p comes before q in stable arrival order: the order in which jobs enter the
\* ready vector
Before(p, q) ==
    \/ jobs[p].arrival < jobs[q].arrival
    \/ jobs[p].arrival = jobs[q].arrival /\ p < q

\* the input positions of the jobs that compete with the i-th assignment: arrived
\* by its clock value, not assigned before it, and not the assigned job itself
Rivals(i) ==
    {p \in 1..Len(jobs) :
        /\ jobs[p].id # trace[i].id
        /\ jobs[p].arrival <= trace[i].at
        /\ \A h \in 1..(i - 1) : trace[h].id # jobs[p].id}

\* the response ratio of input job p at clock t exceeds / equals that of q
RatioGreater(t, p, q) ==
    (t - jobs[p].arrival + jobs[p].service) * jobs[q].service
        > (t - jobs[q].arrival + jobs[q].service) * jobs[p].service

RatioEqual(t, p, q) ==
    (t - jobs[p].arrival + jobs[p].service) * jobs[q].service
        = (t - jobs[q].arrival + jobs[q].service) * jobs[p].service

\* C5 SJF selection rule: a job dispatched by schedule_sjf at clock t has the
\* least service among the jobs arrived by t and not dispatched before it, and
\* among those of equal service it is the first in stable arrival order.
SjfSelection ==
    alg = "sjf" =>
        \A i \in 1..Len(trace) :
            \A q \in Rivals(i) :
                LET p == PosOf(trace[i].id)
                IN /\ jobs[q].service >= jobs[p].service
                   /\ jobs[q].service = jobs[p].service => Before(p, q)

SjfSelectionWitness ==
    /\ Done /\ alg = "sjf"
    /\ \E i \in 1..Len(trace) : \E q \in Rivals(i) :
          /\ jobs[q].service > jobs[PosOf(trace[i].id)].service
          /\ Before(q, PosOf(trace[i].id))
    /\ \E i \in 1..Len(trace) : \E q \in Rivals(i) :
          jobs[q].service = jobs[PosOf(trace[i].id)].service

\* C6 HRRN selection rule: a job dispatched by schedule_hrrn at clock t has the
\* greatest response ratio (t - arrival + service) / service at t among the jobs
\* arrived by t and not dispatched before it, and among those of equal ratio it
\* is the first in stable arrival order.
HrrnSelection ==
    alg = "hrrn" =>
        \A i \in 1..Len(trace) :
            \A q \in Rivals(i) :
                LET p == PosOf(trace[i].id)
                IN /\ ~RatioGreater(trace[i].at, q, p)
                   /\ RatioEqual(trace[i].at, q, p) => Before(p, q)

\* a tie between two jobs that have both sat in the ready vector through the
\* sort of an earlier dispatch
HrrnSelectionWitness ==
    /\ Done /\ alg = "hrrn"
    /\ \E i \in 2..Len(trace) : \E q \in Rivals(i) :
          /\ RatioEqual(trace[i].at, q, PosOf(trace[i].id))
          /\ \E h \in 1..(i - 1) :
                /\ trace[h].at < trace[i].at
                /\ q \in Rivals(h) /\ PosOf(trace[i].id) \in Rivals(h)

\* the tracked free time of core c after the first i assignments: the end of
\* the last of them on that core, 0 when there is none
FreeAfter(c, i) ==
    LET on == {h \in 1..i : trace[h].core = c}
    IN IF on = {} THEN 0
       ELSE trace[CHOOSE h \in on : \A g \in on : g <= h].end

\* the smallest tracked free time over the m cores after the first i assignments
EarliestFreeAfter(i) ==
    CHOOSE f \in {FreeAfter(c, i) : c \in 1..m} : \A c \in 1..m : f <= FreeAfter(c, i)

\* C7 FCFS order: schedule_fcfs places the jobs in stable ascending-arrival
\* order, each at the later of its arrival and the smallest core free time left
\* by the jobs placed before it, so starts never decrease along that order.
FcfsArrivalOrder ==
    alg = "fcfs" =>
        /\ \A i, j \in 1..Len(trace) :
              i < j => /\ Before(PosOf(trace[i].id), PosOf(trace[j].id))
                       /\ trace[i].start <= trace[j].start
        /\ \A i \in 1..Len(trace) :
              LET a == jobs[PosOf(trace[i].id)].arrival
                  f == EarliestFreeAfter(i - 1)
              IN trace[i].start = (IF a >= f THEN a ELSE f)
        /\ Done => Len(trace) = Len(jobs)

FcfsArrivalOrderWitness ==
    /\ Done /\ alg = "fcfs" /\ m = 2 /\ Len(jobs) = 3
    /\ \E i, j \in 1..Len(trace) :
          /\ i < j
          /\ jobs[PosOf(trace[i].id)].arrival = jobs[PosOf(trace[j].id)].arrival
    /\ \E i \in 1..Len(trace) : trace[i].start > jobs[PosOf(trace[i].id)].arrival
    /\ \E p, q \in 1..Len(jobs) : p < q /\ jobs[p].arrival > jobs[q].arrival

\* C8 Output ordering: the returned list is sorted ascending by id.
OutputSortedById ==
    Done => \A k, l \in 1..Len(result) : k < l => result[k].id < result[l].id

\* a pass of the main loop started now would dispatch: a core is free and a
\* job is ready or has arrived
Dispatchable ==
    /\ \E c \in 1..Len(core_free) : core_free[c] <= time
    /\ \/ ready # <<>>
       \/ idx_next <= Len(all) /\ all[idx_next].arrival <= time

\* twice the number of jobs still to finish, less one when the next pass dispatches
Rank == 2 * (Len(jobs) - Len(finished)) - (IF Dispatchable THEN 1 ELSE 0)

\* C9 Termination: the main loop of schedule_sjf / schedule_hrrn is left after
\* finitely many passes, with as many finished jobs as there are input jobs.
\* Every pass either strictly lowers Rank, which stays non-negative (so a clock
\* advance without dispatch is followed by a dispatch), or leaves the loop; and
\* the loop is only ever left with every input job finished.
LoopTerminates ==
    [][/\ pc = "loop" => (pc' = "branch" /\ Rank' = Rank) \/ pc' = "exit"
       /\ pc = "branch" => (pc' = "loop" /\ Rank' < Rank /\ Rank' >= 0) \/ pc' = "exit"
       /\ pc' = "exit" => Len(finished') = Len(jobs')]_vars

LoopTerminatesWitness ==
    /\ pc = "exit" /\ alg = "hrrn" /\ m = 2
    /\ Len(jobs) = 3 /\ Len(finished) = 3
    /\ \E i \in 1..Len(trace) : trace[i].start > jobs[PosOf(trace[i].id)].arrival
    /\ \E i \in 1..Len(trace) : trace[i].at > 0 /\ trace[i].was = 0

\* the returned job with this id runs on [from, to)
RunsOn(id, from, to) ==
    \E k \in 1..Len(result) :
        /\ result[k].id = id
        /\ result[k].start = Some(from) /\ result[k].end = Some(to)

\* the ids in the order the jobs were assigned
AssignOrder == [i \in 1..Len(trace) |-> trace[i].id]

SjfSampleRun == Done /\ alg = "sjf" /\ jobs = SampleJobs /\ m = 1

\* C10 SJF scenario as stated: on sample_jobs() with one core, job 1 runs on
\* [0,3), then job 3 on [3,7), job 4 on [7,12), job 5 on [12,14), job 2 on [14,20).
SjfScenarioAsStated ==
    SjfSampleRun =>
        /\ RunsOn(1, 0, 3) /\ RunsOn(3, 3, 7) /\ RunsOn(4, 7, 12)
        /\ RunsOn(5, 12, 14) /\ RunsOn(2, 14, 20)
        /\ AssignOrder = <<1, 3, 4, 5, 2>>

\* C10 SJF scenario, amended: job 3 arrives at 4, so at t = 3 job 2 is the only
\* ready job.  Job 1 runs on [0,3), then job 2 on [3,9), job 5 on [9,11),
\* job 3 on [11,15), job 4 on [15,20).
SjfScenario ==
    SjfSampleRun =>
        /\ RunsOn(1, 0, 3) /\ RunsOn(2, 3, 9) /\ RunsOn(5, 9, 11)
        /\ RunsOn(3, 11, 15) /\ RunsOn(4, 15, 20)
        /\ AssignOrder = <<1, 2, 5, 3, 4>>

SjfScenarioWitness == SjfSampleRun /\ Len(result) = 5 /\ Len(trace) = 5

FcfsSampleRun == Done /\ alg = "fcfs" /\ jobs = SampleJobs /\ m = 1

\* C11 FCFS scenario: on sample_jobs() with one core, schedule_fcfs gives the
\* jobs with ids 1..5 the starts 0, 3, 9, 13, 18 and the ends 3, 9, 13, 18, 20.
FcfsScenario ==
    FcfsSampleRun =>
        /\ Len(result) = 5
        /\ RunsOn(1, 0, 3) /\ RunsOn(2, 3, 9) /\ RunsOn(3, 9, 13)
        /\ RunsOn(4, 13, 18) /\ RunsOn(5, 18, 20)

FcfsScenarioWitness ==
    /\ FcfsSampleRun /\ Len(trace) = 5
    /\ \A i \in 1..Len(trace) : trace[i].core = 1

\* C12 Degenerate service time: on a list with zero-service jobs (and any
\* others, m >= 1) schedule_fcfs and schedule_sjf terminate: every pass of the
\* fcfs loop moves on by one job, every pass of the sjf loop strictly lowers
\* the non-negative Rank or leaves the loop, and the sjf loop is left only
\* with every job finished.  What is returned holds every input job once, with
\* start >= arrival and end = start + service, which is end = start for a
\* zero-service job.
DegenerateService ==
    [][/\ pc = "fcfs_loop" =>
             \/ pc' = "fcfs_loop" /\ idx_next' = idx_next + 1 /\ idx_next' <= Len(all') + 1
             \/ pc' = "done"
       /\ pc = "loop" => (pc' = "branch" /\ Rank' = Rank) \/ pc' = "exit"
       /\ pc = "branch" => (pc' = "loop" /\ Rank' < Rank /\ Rank' >= 0) \/ pc' = "exit"
       /\ pc' = "exit" => Len(finished') = Len(jobs')
       /\ pc = "exit" => pc' = "done"
       /\ pc' = "done" =>
             /\ Len(result') = Len(jobs')
             /\ \A i \in 1..Len(jobs') : Cardinality(Holding(result', jobs'[i].id)) = 1
             /\ \A k \in 1..Len(result') :
                   /\ IsSome(result'[k].start) /\ IsSome(result'[k].end)
                   /\ Unwrap(result'[k].start) >= result'[k].arrival
                   /\ Unwrap(result'[k].end) = Unwrap(result'[k].start) + result'[k].service
                   /\ result'[k].service = 0 => result'[k].end = result'[k].start]_vars

\* a zero-service job that waited for the core behind a job that takes time,
\* and another job of the same run dispatched after it
DegenerateServiceWitness ==
    /\ Done /\ alg = "sjf" /\ m = 1
    /\ \E k, l \in 1..Len(result) :
          /\ result[k].service = 0 /\ result[l].service > 0
          /\ Unwrap(result[k].start) > result[k].arrival
          /\ result[k].end = result[k].start
          /\ result[k].start = result[l].end
    /\ \E i \in 2..Len(trace) : trace[i].at = trace[i - 1].at /\ trace[i].core = trace[i - 1].core

\* the returned jobs with a positive service time
PositiveService == {k \in 1..Len(result) : result[k].service > 0}

\* the sum of (end - arrival) / service over the first k returned jobs, those
\* with service = 0 left out
RECURSIVE WeightedSumUpto(_)
WeightedSumUpto(k) ==
    IF k = 0 THEN Frac(0, 1)
    ELSE IF k \in PositiveService
         THEN FracAdd(WeightedSumUpto(k - 1),
                      Frac(Unwrap(result[k].end) - result[k].arrival, result[k].service))
         ELSE WeightedSumUpto(k - 1)

\* C13 Weighted-turnaround exclusion: the weighted average print_results
\* reports is the sum of (end - arrival) / service over the jobs with
\* service > 0 divided by the number of those jobs; a zero-service job adds to
\* neither the sum nor the divisor.
WeightedAverageExcludesZero ==
    (pc = "printed" /\ PositiveService # {}) =>
        /\ IsSome(report.avg_wturn)
        /\ FracEq(Unwrap(report.avg_wturn),
                  FracDiv(WeightedSumUpto(Len(result)), Cardinality(PositiveService)))

\* C14 Leftover-ready fallback is unreachable: in schedule_sjf and
\* schedule_hrrn (m >= 1, service > 0), whenever the main loop has been left
\* the ready vector is empty and every input job is in finished, and no
\* assignment is ever made by the block after the loop.
FallbackUnreachable ==
    alg \in {"sjf", "hrrn"} =>
        /\ pc = "exit" =>
              /\ ready = <<>>
              /\ Len(finished) = Len(jobs)
              /\ \A i \in 1..Len(jobs) : Cardinality(Holding(finished, jobs[i].id)) = 1
        /\ \A i \in 1..Len(trace) : trace[i].from = "loop"

\* the loop has been left after a run in which a job sat in ready through a
\* dispatch that did not take it
FallbackUnreachableWitness ==
    /\ pc = "exit" /\ alg = "sjf" /\ Len(jobs) = 3 /\ Len(trace) = 3
    /\ \E i \in 1..Len(trace) : Rivals(i) # {}
    /\ \E i \in 1..Len(trace) : trace[i].start > jobs[PosOf(trace[i].id)].arrival

IdsOf(s) == {s[k].id : k \in 1..Len(s)}

\* the ready vector is sound at the current clock: every job in it has arrived,
\* is there once and is not finished
ReadySound ==
    \A k \in 1..Len(ready) :
        /\ ready[k].arrival <= time
        /\ ready[k].id \notin IdsOf(finished)
        /\ Cardinality(Holding(ready, ready[k].id)) = 1

\* the ready vector is complete at the current clock: it holds every input job
\* that has arrived and is not finished
ReadyComplete ==
    \A i \in 1..Len(jobs) :
        (jobs[i].arrival <= time /\ jobs[i].id \notin IdsOf(finished)) =>
            jobs[i].id \in IdsOf(ready)

\* C16 Ready-set invariant: in the main loop of schedule_sjf / schedule_hrrn
\* (m >= 1, service > 0), at the loop head and after the admit step, every job
\* in ready has arrival <= time and is not in finished; a job enters ready
\* only in the admit step, as one of the jobs idx_next moves past, and only if
\* it was never in ready or finished before; a job leaves ready only by being
\* assigned (it is then in finished) and never comes back; and at each dispatch
\* step ready holds every unfinished job with arrival <= time.
ReadySetInvariant ==
    [][(alg' \in {"sjf", "hrrn"} /\ pc' \in {"loop", "branch"}) =>
          /\ ReadySound'
          /\ pc' = "branch" => ReadyComplete'
          /\ idx_next' >= idx_next
          /\ \A id \in IdsOf(ready') \ IdsOf(ready) :
                /\ pc = "loop"
                /\ id \notin IdsOf(finished)
                /\ \E k \in idx_next..(idx_next' - 1) : all[k].id = id
          /\ \A id \in IdsOf(ready) \ IdsOf(ready') :
                /\ pc = "branch"
                /\ id \in IdsOf(finished') \ IdsOf(finished)
          /\ IdsOf(finished) \subseteq IdsOf(finished')]_vars

\* a dispatch step with fewer free cores than ready jobs: one job is taken, one
\* stays, and a third has not arrived yet
ReadySetInvariantWitness ==
    /\ alg = "hrrn" /\ pc = "loop" /\ Len(jobs) = 3
    /\ Len(ready) = 1 /\ Len(finished) = 1 /\ idx_next = 3

\* C17 Virtual clock monotonicity: in schedule_sjf and schedule_hrrn (m >= 1,
\* service > 0) no assignment to `time` lowers it, also when m >= 2 and a core
\* was left without a job by a dispatch.
ClockMonotone ==
    [][(alg \in {"sjf", "hrrn"} /\ pc \in {"loop", "branch"}) => time' >= time]_vars

SameTimes(r, q, id) ==
    \E k \in 1..Len(r) : \E l \in 1..Len(q) :
        /\ r[k].id = id /\ q[l].id = id
        /\ IsSome(r[k].start) /\ IsSome(r[k].end)
        /\ r[k].start = q[l].start /\ r[k].end = q[l].end

====
